---- MODULE Spec2Model ----
(***************************************************************************)
(* Model of lambda_function.py (yyrichy/socscraper): the snapshot diff     *)
(* (compare_states), the renderer (format_state_message,                   *)
(* format_section_line), the notifier (send_discord_notification) and the  *)
(* orchestration (lambda_handler).                                         *)
(*                                                                         *)
(* Representation of the Python values:                                    *)
(*  - a dict that the code iterates (a snapshot, a "sections" dict, the    *)
(*    change lookup) is a sequence of <<key, value>> pairs with distinct   *)
(*    keys, in insertion order, as Python keeps it;                        *)
(*  - a dict that the code only reads with .get / [] (a course record, a   *)
(*    section record, a change) is a TLA+ record whose DOMAIN is the set   *)
(*    of keys present, so that a missing key is a missing field;           *)
(*  - a str is a TLA+ string; the source's non-ASCII glyphs and its        *)
(*    backticks, which a TLA+ string cannot hold, are written as ASCII     *)
(*    tags ("[red] ", "'").                                                *)
(***************************************************************************)
EXTENDS Integers, Sequences, FiniteSets, TLC

VARIABLES
    S3_BUCKET_NAME,          \* configuration, read once from the environment
    DISCORD_WEBHOOK_URL,
    DISCORD_USER_ID_TO_PING,
    run_as_script,           \* __name__ == "__main__" (line 437)
    persisted,               \* the snapshot stored under STATE_FILE_KEY, or in
                             \* course_state_local.json for a script run
                             \* without bucket
    pc,                      \* position of the current run
    old_state,               \* lambda_handler / compare_states locals
    fetched_state,
    new_state,
    fetch_errors,
    changes,
    message,                 \* result of format_state_message, or the
                             \* exception that ended the run
    trace,                   \* pipeline stages the run has completed
    sent,                    \* payloads delivered to the webhook by the run
    saved,                   \* arguments of the run's save_current_state_s3 calls
    status                   \* statusCode returned by the run

vars == <<S3_BUCKET_NAME, DISCORD_WEBHOOK_URL, DISCORD_USER_ID_TO_PING,
          run_as_script, persisted,
          pc, old_state, fetched_state, new_state, fetch_errors, changes, message,
          trace, sent, saved, status>>

config == <<S3_BUCKET_NAME, DISCORD_WEBHOOK_URL, DISCORD_USER_ID_TO_PING,
            run_as_script>>

(***************************************************************************)
(* Program constants                                                       *)
(***************************************************************************)
PARSE_ERROR_DEFAULT == -999

max_len == 1950

STARRED_COURSES ==
    {"CMSC320", "CMSC335", "CMSC414", "CMSC417", "CMSC421", "CMSC424",
     "CMSC430", "CMSC433", "CMSC434", "CMSC435", "CMSC436"}

SEND_DISCORD_NOTIFICATION == TRUE

SEND_NO_UPDATES_MESSAGE == TRUE

(***************************************************************************)
(* Bounds of the model                                                     *)
(***************************************************************************)
\* Seat counts range over 0..MaxSeats (plus the unknown sentinel).
MaxSeats == 1

(***************************************************************************)
(* Python built-ins                                                        *)
(***************************************************************************)
\* The keys of an insertion-ordered dict.
Keys(d) == {d[i][1] : i \in DOMAIN d}

\* key in d
Has(d, k) == \E i \in DOMAIN d : d[i][1] = k

\* d[key]
Item(d, k) == d[CHOOSE i \in DOMAIN d : d[i][1] = k][2]

\* d[key] = value: an existing key keeps its position, a new key goes last.
Put(d, k, v) ==
    IF Has(d, k)
    THEN [i \in DOMAIN d |-> IF d[i][1] = k THEN <<k, v>> ELSE d[i]]
    ELSE Append(d, <<k, v>>)

\* d.get(key, default) on an insertion-ordered dict.
ItemOr(d, k, default) == IF Has(d, k) THEN Item(d, k) ELSE default

\* record.get(field, default)
GetOr(r, f, default) == IF f \in DOMAIN r THEN r[f] ELSE default

\* str.startswith
StartsWith(s, prefix) ==
    /\ Len(s) >= Len(prefix)
    /\ SubSeq(s, 1, Len(prefix)) = prefix

\* Concatenation of a sequence of sequences (successive list.append calls).
RECURSIVE Flatten(_)
Flatten(ss) == IF ss = <<>> THEN <<>> ELSE Head(ss) \o Flatten(Tail(ss))

(***************************************************************************)
(* compare_states                                                          *)
(***************************************************************************)
\* A read of a misspelt key: the flag is never seen.
fetch_error_never(course_data) == GetOr(course_data, "fetchError", FALSE) = TRUE

\* course_data.get("fetch_error") is truthy (lines 149, 169, 214, 368)
fetch_error_set(course_data) == GetOr(course_data, "fetch_error", FALSE) = TRUE

\* The comparison without the guards on the sentinel.
value_changed_any(old_val, new_val) == old_val # new_val

\* The condition of lines 161, 163 and 165 on a numeric field.
value_changed(old_val, new_val) ==
    /\ old_val # new_val
    /\ new_val # PARSE_ERROR_DEFAULT
    /\ old_val # PARSE_ERROR_DEFAULT

\* The comparison without the guard on the old value.
instr_changed_any(old_instr, new_instr) == old_instr # new_instr

\* The condition of line 167.
instr_changed(old_instr, new_instr) ==
    old_instr # new_instr /\ old_instr # "Unknown"

\* Every old section reported, present in new or not.
section_gone_always(new_sections, section_id) == TRUE

\* The condition of line 172.
section_gone(new_sections, section_id) == ~Has(new_sections, section_id)

\* A change without field data (lines 153, 156, 172).
section_change(type, course_id, title, section_id, data) ==
    [type |-> type, course |-> course_id, title |-> title,
     section |-> section_id, data |-> data]

\* A change of one field (lines 160-167).
field_change(type, course_id, title, section_id, data, old_val, new_val, field) ==
    [type |-> type, course |-> course_id, title |-> title,
     section |-> section_id, data |-> data,
     old_val |-> old_val, new_val |-> new_val, field |-> field]

\* Lines 152-153: one change per section of a course that old_state lacks.
\* The `continue` that ends line 153 belongs to the inner for statement.
new_course_changes(course_id, new_title, new_sections) ==
    LET change_type == IF StartsWith(course_id, "CMSC4")
                       THEN "NEW_CMSC4_COURSE" ELSE "NEW_COURSE_SECTION"
    IN  [i \in DOMAIN new_sections |->
            section_change(change_type, course_id, new_title,
                           new_sections[i][1], new_sections[i][2])]

\* Both open events for a section whose open count differs.
open_changes_both(course_id, new_title, section_id, old_section_data, new_section_data) ==
    LET old_open == GetOr(old_section_data, "open", PARSE_ERROR_DEFAULT)
        new_open == GetOr(new_section_data, "open", PARSE_ERROR_DEFAULT)
    IN  (IF old_open = 0 /\ new_open > 0
         THEN <<field_change("SEATS_OPENED", course_id, new_title, section_id,
                             new_section_data, old_open, new_open, "open")>>
         ELSE <<>>)
        \o (IF value_changed(old_open, new_open)
            THEN <<field_change("OPEN_CHANGE", course_id, new_title, section_id,
                                new_section_data, old_open, new_open, "open")>>
            ELSE <<>>)

\* Lines 159-161.
open_changes(course_id, new_title, section_id, old_section_data, new_section_data) ==
    LET old_open == GetOr(old_section_data, "open", PARSE_ERROR_DEFAULT)
        new_open == GetOr(new_section_data, "open", PARSE_ERROR_DEFAULT)
    IN  IF old_open = 0 /\ new_open > 0
        THEN <<field_change("SEATS_OPENED", course_id, new_title, section_id,
                            new_section_data, old_open, new_open, "open")>>
        ELSE IF value_changed(old_open, new_open)
        THEN <<field_change("OPEN_CHANGE", course_id, new_title, section_id,
                            new_section_data, old_open, new_open, "open")>>
        ELSE <<>>

\* Lines 162-163.
total_changes(course_id, new_title, section_id, old_section_data, new_section_data) ==
    LET old_total == GetOr(old_section_data, "total", PARSE_ERROR_DEFAULT)
        new_total == GetOr(new_section_data, "total", PARSE_ERROR_DEFAULT)
    IN  IF value_changed(old_total, new_total)
        THEN <<field_change("TOTAL_CHANGE", course_id, new_title, section_id,
                            new_section_data, old_total, new_total, "total")>>
        ELSE <<>>

\* Lines 164-165.
waitlist_changes(course_id, new_title, section_id, old_section_data, new_section_data) ==
    LET old_wait == GetOr(old_section_data, "waitlist", PARSE_ERROR_DEFAULT)
        new_wait == GetOr(new_section_data, "waitlist", PARSE_ERROR_DEFAULT)
    IN  IF value_changed(old_wait, new_wait)
        THEN <<field_change("WAITLIST_CHANGE", course_id, new_title, section_id,
                            new_section_data, old_wait, new_wait, "waitlist")>>
        ELSE <<>>

\* Lines 166-167: the defaults differ, "Unknown" for old and "TBA" for new.
instr_changes(course_id, new_title, section_id, old_section_data, new_section_data) ==
    LET old_instr == GetOr(old_section_data, "instructor", "Unknown")
        new_instr == GetOr(new_section_data, "instructor", "TBA")
    IN  IF instr_changed(old_instr, new_instr)
        THEN <<field_change("INSTR_CHANGE", course_id, new_title, section_id,
                            new_section_data, old_instr, new_instr, "instructor")>>
        ELSE <<>>

\* Lines 156-167: the changes of one section of new_sections.
section_changes(course_id, new_title, section_id, new_section_data, old_sections) ==
    IF ~Has(old_sections, section_id)
    THEN <<section_change("NEW_SECTION", course_id, new_title, section_id,
                          new_section_data)>>
    ELSE LET old_section_data == Item(old_sections, section_id)
         IN  open_changes(course_id, new_title, section_id,
                          old_section_data, new_section_data)
             \o total_changes(course_id, new_title, section_id,
                              old_section_data, new_section_data)
             \o waitlist_changes(course_id, new_title, section_id,
                                 old_section_data, new_section_data)
             \o instr_changes(course_id, new_title, section_id,
                              old_section_data, new_section_data)

\* Lines 149-167: one iteration of the first loop. After the inner loop of
\* line 153 control falls through to line 154, where old_state.get(course_id,
\* {}) gives an empty record and old_sections is empty.
course_changes(old, course_id, new_course_data) ==
    IF fetch_error_set(new_course_data) THEN <<>>
    ELSE
    LET new_title == GetOr(new_course_data, "title", "Unknown")
        new_sections == GetOr(new_course_data, "sections", <<>>)
        first_seen == IF ~Has(old, course_id)
                      THEN new_course_changes(course_id, new_title, new_sections)
                      ELSE <<>>
        old_course_data == ItemOr(old, course_id, <<>>)
        old_sections == GetOr(old_course_data, "sections", <<>>)
    IN  first_seen
        \o Flatten([i \in DOMAIN new_sections |->
                      section_changes(course_id, new_title, new_sections[i][1],
                                      new_sections[i][2], old_sections)])

\* Lines 169-172: one iteration of the second loop.
removed_changes(new, course_id, old_course_data) ==
    IF Has(new, course_id) /\ ~fetch_error_set(Item(new, course_id))
    THEN LET old_sections == GetOr(old_course_data, "sections", <<>>)
             new_sections == GetOr(Item(new, course_id), "sections", <<>>)
             removed == SelectSeq(old_sections,
                                  LAMBDA kv : section_gone(new_sections, kv[1]))
         IN  [i \in DOMAIN removed |->
                section_change("SECTION_REMOVED", course_id,
                               GetOr(old_course_data, "title", "Unknown"),
                               removed[i][1], removed[i][2])]
    ELSE <<>>

\* Lines 145-173.
compare_states(old, new) ==
    Flatten([i \in DOMAIN new |-> course_changes(old, new[i][1], new[i][2])])
    \o Flatten([i \in DOMAIN old |-> removed_changes(new, old[i][1], old[i][2])])

(***************************************************************************)
(* Formatting                                                              *)
(***************************************************************************)
\* The identifiers the model draws keys from, in ascending string order;
\* sorted() on keys is the selection of the present keys in this order.
CourseIds == <<"CMSC320", "CMSC335", "CMSC436">>

SectionIds == <<"0101", "0201">>

\* sorted(d.items()) for a dict whose keys lie in `universe`.
sorted_items(d, universe) ==
    LET ks == SelectSeq(universe, LAMBDA k : Has(d, k))
    IN  [i \in DOMAIN ks |-> <<ks[i], Item(d, ks[i])>>]

\* sep.join(parts)
RECURSIVE Join(_, _)
Join(parts, sep) ==
    IF parts = <<>> THEN ""
    ELSE IF Len(parts) = 1 THEN parts[1]
    ELSE parts[1] \o sep \o Join(Tail(parts), sep)

\* Lines 176-179.
get_status_emoji(open_seats, total_seats) ==
    IF open_seats = 0 THEN "[red] "
    ELSE IF open_seats > 0 /\ open_seats < total_seats THEN "[wait] "
    ELSE ""

\* Lines 182-190.
RECURSIVE build_lookup_from(_, _)
build_lookup_from(cs, lookup) ==
    IF cs = <<>> THEN lookup
    ELSE LET change == Head(cs)
             key == <<change.course, change.section>>
         IN  build_lookup_from(Tail(cs),
                 Put(lookup, key, Append(ItemOr(lookup, key, <<>>), change)))

build_change_lookup(cs) == build_lookup_from(cs, <<>>)

\* "?" for the sentinel, str(value) otherwise (line 257).
str_val(v) == IF v # PARSE_ERROR_DEFAULT THEN ToString(v) ELSE "?"

\* Lines 267-271. int() of an instructor name raises ValueError, which the
\* code catches; the numeric fields give a signed difference.
diff_str_of(change) ==
    LET field == GetOr(change, "field", "")
    IN  IF field = "" \/ "old_val" \notin DOMAIN change
                      \/ "new_val" \notin DOMAIN change
        THEN ""
        ELSE IF field = "instructor" THEN " (?)"
        ELSE IF change.old_val = PARSE_ERROR_DEFAULT
                \/ change.new_val = PARSE_ERROR_DEFAULT
        THEN ""
        ELSE LET diff == change.new_val - change.old_val
             IN  IF diff # 0 \/ change.type = "SEATS_OPENED"
                 THEN " (" \o (IF diff >= 0 THEN "+" ELSE "") \o ToString(diff)
                      \o "d)"
                 ELSE ""

\* Lines 274-289: the effect of one change on the strings of the line.
apply_change(acc, change) ==
    LET diff_str == diff_str_of(change)
    IN  CASE change.type = "SEATS_OPENED" ->
               [acc EXCEPT !.open_str = "**Open: " \o ToString(change.new_val)
                                         \o "**" \o diff_str,
                           !.change_tags = Append(@, "[green] OPENED")]
          [] change.type = "OPEN_CHANGE" ->
               [acc EXCEPT !.open_str = "**Open: " \o ToString(change.new_val)
                                         \o "**" \o diff_str]
          [] change.type = "TOTAL_CHANGE" ->
               [acc EXCEPT !.total_str = "**Total: " \o ToString(change.new_val)
                                          \o "**" \o diff_str]
          [] change.type = "WAITLIST_CHANGE" ->
               [acc EXCEPT !.wait_str = "**Waitlist: " \o ToString(change.new_val)
                                         \o "**" \o diff_str]
          [] change.type = "INSTR_CHANGE" ->
               [acc EXCEPT !.instr_str = "**Instr: " \o change.new_val
                                          \o "** (was " \o change.old_val \o ")"]
          [] change.type = "NEW_SECTION" ->
               [acc EXCEPT !.change_tags = Append(@, "[plus] NEW")]
          [] change.type = "NEW_COURSE_SECTION" ->
               [acc EXCEPT !.change_tags = Append(@, "[new] NEW CRS")]
          [] change.type = "NEW_CMSC4_COURSE" ->
               [acc EXCEPT !.change_tags = Append(@, "[alert] NEW CMSC4")]
          [] OTHER -> acc

RECURSIVE apply_changes(_, _)
apply_changes(acc, cs) ==
    IF cs = <<>> THEN acc ELSE apply_changes(apply_change(acc, Head(cs)), Tail(cs))

\* Lines 252-303.
format_section_line(section_id, data, cs) ==
    LET opn == GetOr(data, "open", PARSE_ERROR_DEFAULT)
        tot == GetOr(data, "total", PARSE_ERROR_DEFAULT)
        wl == GetOr(data, "waitlist", PARSE_ERROR_DEFAULT)
        instr == GetOr(data, "instructor", "TBA")
        base == [open_str |-> "Open: " \o str_val(opn),
                 total_str |-> "Total: " \o str_val(tot),
                 wait_str |-> "Waitlist: " \o str_val(wl),
                 instr_str |-> "Instr: " \o instr,
                 change_tags |-> <<>>]
        acc == apply_changes(base, cs)
        status_emoji ==
            IF \E i \in DOMAIN acc.change_tags : acc.change_tags[i] = "[green] OPENED"
            THEN "[green] "
            ELSE IF opn # PARSE_ERROR_DEFAULT /\ tot # PARSE_ERROR_DEFAULT
            THEN get_status_emoji(opn, tot)
            ELSE IF opn = 0 THEN "[red] "
            ELSE ""
        tags_str == IF acc.change_tags # <<>>
                    THEN " *(" \o Join(acc.change_tags, ", ") \o ")*"
                    ELSE ""
    IN  "  - " \o status_emoji \o "'" \o section_id \o "': " \o acc.open_str
        \o ", " \o acc.total_str \o ", " \o acc.wait_str \o ", " \o acc.instr_str
        \o tags_str

\* The result of a call: a returned value, or an exception that propagates.
Returned(v) == [raised |-> FALSE, value |-> v]

Raised(e) == [raised |-> TRUE, error |-> e]

\* Lines 208-226: the lines of one course.
course_lines(course_id, course_data, change_lookup) ==
    LET star == IF course_id \in STARRED_COURSES THEN "[star] " ELSE ""
        title == GetOr(course_data, "title", "Unknown Title")
        sections == GetOr(course_data, "sections", <<>>)
        width == 45 - Len(course_id)
        title_short == IF Len(title) > width
                       THEN SubSeq(title, 1, width) \o "..." ELSE title
        head == "\n" \o star \o "**'" \o course_id \o "'** (" \o title_short \o "):"
        rows == sorted_items(sections, SectionIds)
    IN  IF fetch_error_set(course_data)
        THEN <<head, "  - [warn] *(Fetch Error: Data may be stale)*">>
        ELSE IF sections = <<>>
        THEN <<head, "  - *(No sections found/parsed.)*">>
        ELSE <<head>> \o
             [i \in DOMAIN rows |->
                format_section_line(rows[i][1], rows[i][2],
                    ItemOr(change_lookup, <<course_id, rows[i][1]>>, <<>>))]

\* Lines 192-248. With a non-empty change_lookup line 231 reads `changes`,
\* a name bound neither in the function nor in the module: NameError.
format_state_message(state_data, change_lookup) ==
    IF state_data = <<>>
    THEN Returned("**State Message**: No courses found/parsed.")
    ELSE
    LET header == IF change_lookup # <<>>
                  THEN "**[chart] Course Section Update:**"
                  ELSE "**[chart] Initial State (" \o ToString(Len(state_data))
                       \o " courses monitored):**"
        courses == sorted_items(state_data, CourseIds)
        lines == <<header>> \o
                 Flatten([i \in DOMAIN courses |->
                            course_lines(courses[i][1], courses[i][2],
                                         change_lookup)])
    IN  IF change_lookup # <<>>
        THEN Raised("NameError")
        ELSE Returned(Join(lines, "\n"))

(***************************************************************************)
(* Inputs of the diff and of the renderer                                  *)
(***************************************************************************)
\* Section records with every field: all combinations of known and unknown
\* values of the four compared fields.
FullSections ==
    [open : {PARSE_ERROR_DEFAULT} \cup (0 .. MaxSeats),
     total : {PARSE_ERROR_DEFAULT, MaxSeats, MaxSeats + 1},
     waitlist : {PARSE_ERROR_DEFAULT, 0, MaxSeats},
     instructor : {"Unknown", "Smith"}]

BaseSection ==
    [open |-> 0, total |-> MaxSeats, waitlist |-> 0, instructor |-> "Smith"]

\* Section records as a stored snapshot may hold them: fields missing, and a
\* second instructor name.
PartialSections ==
    {[open |-> 0],
     [open |-> 0, total |-> MaxSeats, waitlist |-> 0],
     [open |-> 0, total |-> MaxSeats, waitlist |-> 0, instructor |-> "Jones"]}

SectionData == FullSections \cup PartialSections

\* "sections" dicts of CMSC436: section 0101 absent or any record, section
\* 0201 absent or the base record.
SectionMaps ==
    {first \o second :
        first \in {<<>>} \cup {<< <<"0101", r>> >> : r \in SectionData},
        second \in {<<>>, << <<"0201", BaseSection>> >>}}

Cmsc436Records ==
    {[title |-> "Programming Handheld Systems", sections |-> m] : m \in SectionMaps}
    \cup {[title |-> "Programming Handheld Systems", fetch_error |-> TRUE],
          [title |-> "Programming Handheld Systems", fetch_error |-> TRUE,
           sections |-> << <<"0101", BaseSection>>, <<"0201", BaseSection>> >>]}

Cmsc335Records ==
    {[title |-> "Web Application Development with JavaScript",
      sections |-> << <<"0101", BaseSection>> >>]}

\* Snapshots over the two courses, in both insertion orders.
DiffSnapshots ==
    {<<>>}
    \cup {<< <<"CMSC335", a>> >> : a \in Cmsc335Records}
    \cup {<< <<"CMSC436", b>> >> : b \in Cmsc436Records}
    \cup {<< <<"CMSC335", a>>, <<"CMSC436", b>> >> :
              a \in Cmsc335Records, b \in Cmsc436Records}
    \cup {<< <<"CMSC436", b>>, <<"CMSC335", a>> >> :
              a \in Cmsc335Records, b \in Cmsc436Records}

(***************************************************************************)
(* The diff and the renderer as a state machine: the inputs are drawn in   *)
(* DiffInit, DiffCompare applies compare_states, DiffRender applies        *)
(* build_change_lookup and format_state_message to its result.             *)
(***************************************************************************)
NoMessage == [raised |-> FALSE, value |-> ""]

DiffInit ==
    /\ S3_BUCKET_NAME = ""
    /\ DISCORD_WEBHOOK_URL = ""
    /\ DISCORD_USER_ID_TO_PING = ""
    /\ run_as_script = FALSE
    /\ persisted = <<>>
    /\ pc = "input"
    /\ old_state \in DiffSnapshots
    /\ new_state \in DiffSnapshots
    /\ fetched_state = <<>>
    /\ fetch_errors = <<>>
    /\ changes = <<>>
    /\ message = NoMessage
    /\ trace = <<>>
    /\ sent = <<>>
    /\ saved = <<>>
    /\ status = 0

DiffCompare ==
    /\ pc = "input"
    /\ changes' = compare_states(old_state, new_state)
    /\ pc' = "compared"
    /\ UNCHANGED <<config, persisted, old_state, fetched_state, new_state,
                   fetch_errors, message, trace, sent, saved, status>>

DiffRender ==
    /\ pc = "compared"
    /\ message' = format_state_message(new_state, build_change_lookup(changes))
    /\ pc' = "rendered"
    /\ UNCHANGED <<config, persisted, old_state, fetched_state, new_state,
                   fetch_errors, changes, trace, sent, saved, status>>

DiffNext == DiffCompare \/ DiffRender

SpecDiff == DiffInit /\ [][DiffNext]_vars

(***************************************************************************)
(* send_discord_notification                                               *)
(***************************************************************************)
\* str.splitlines, for text whose only line boundary is "\n": the pieces
\* between the newlines, without the empty piece after a final newline.
splitlines(s) ==
    LET nl == {i \in 1 .. Len(s) : SubSeq(s, i, i) = "\n"}
        n == Cardinality(nl)
        at(k) == IF k = 0 THEN 0
                 ELSE IF k = n + 1 THEN Len(s) + 1
                 ELSE CHOOSE i \in nl : Cardinality({j \in nl : j < i}) = k - 1
        pieces == [k \in 1 .. (n + 1) |-> SubSeq(s, at(k - 1) + 1, at(k) - 1)]
    IN  IF pieces[n + 1] = "" THEN SubSeq(pieces, 1, n) ELSE pieces

\* not part.strip()
is_blank(s) == \A i \in 1 .. Len(s) : SubSeq(s, i, i) \in {" ", "\n", "\t"}

\* The mention attached to every kind of notification.
user_ping_always(has_changes, user_id) ==
    IF user_id # "" THEN "<@" \o user_id \o "> " ELSE ""

\* Lines 311-314.
user_ping_of(has_changes, user_id) ==
    IF has_changes /\ user_id # "" THEN "<@" \o user_id \o "> " ELSE ""

\* The loop with the newline that ends each line left out of the length test.
RECURSIVE split_parts_unpadded(_, _)
split_parts_unpadded(lines, acc) ==
    IF lines = <<>>
    THEN IF acc.current # "" THEN Append(acc.parts, acc.current) ELSE acc.parts
    ELSE LET line == Head(lines)
         IN  IF Len(acc.current) + Len(line) > max_len
             THEN split_parts_unpadded(Tail(lines),
                      [current |-> line \o "\n",
                       parts |-> IF acc.current # ""
                                 THEN Append(acc.parts, acc.current)
                                 ELSE acc.parts])
             ELSE split_parts_unpadded(Tail(lines),
                      [current |-> acc.current \o line \o "\n",
                       parts |-> acc.parts])

\* Lines 323-337: the loop over the lines, from the state `acc` =
\* [current |-> current_message_part, parts |-> messages_to_send].
RECURSIVE split_parts(_, _)
split_parts(lines, acc) ==
    IF lines = <<>>
    THEN IF acc.current # "" THEN Append(acc.parts, acc.current) ELSE acc.parts
    ELSE LET line == Head(lines)
         IN  IF Len(acc.current) + Len(line) + 1 > max_len
             THEN split_parts(Tail(lines),
                      [current |-> line \o "\n",
                       parts |-> IF acc.current # ""
                                 THEN Append(acc.parts, acc.current)
                                 ELSE acc.parts])
             ELSE split_parts(Tail(lines),
                      [current |-> acc.current \o line \o "\n",
                       parts |-> acc.parts])

\* Lines 309-337: messages_to_send; nothing when no webhook is configured or
\* the message has no line.
messages_to_send(message_content, has_changes, webhook_url, user_id) ==
    LET lines == splitlines(message_content)
    IN  IF webhook_url = "" \/ lines = <<>> THEN <<>>
        ELSE split_parts(
                 [lines EXCEPT ![1] = user_ping_of(has_changes, user_id) \o @],
                 [current |-> "", parts |-> <<>>])

\* Lines 341-344: the payloads posted, one per part that is not blank, each
\* tagged with the kind of notification and the position of its part.
payloads(kind, message_content, has_changes, webhook_url, user_id) ==
    LET parts == messages_to_send(message_content, has_changes, webhook_url, user_id)
        kept == SelectSeq([i \in DOMAIN parts |-> <<i, parts[i]>>],
                          LAMBDA ip : ~is_blank(ip[2]))
    IN  [i \in DOMAIN kept |->
            IF user_ping_of(has_changes, user_id) # ""
            THEN [kind |-> kind, part |-> kept[i][1], content |-> kept[i][2],
                  allowed_mentions |-> <<user_id>>]
            ELSE [kind |-> kind, part |-> kept[i][1], content |-> kept[i][2]]]

\* Lines 345-351: a failed post ends the loop, so the first n payloads are
\* delivered for some n.
Delivered(ps, n) == SubSeq(ps, 1, n)

(***************************************************************************)
(* send_discord_notification as a state machine: the message and the flag  *)
(* has_changes are drawn in SendInit, SendPost splits the message and      *)
(* posts the parts until a post fails.                                     *)
(***************************************************************************)
\* Messages have at most MaxLines lines.
MaxLines == 3

\* s * n
RECURSIVE Repeat(_, _)
Repeat(s, n) ==
    IF n = 0 THEN ""
    ELSE LET half == Repeat(s, n \div 2)
         IN  half \o half \o (IF n % 2 = 1 THEN s ELSE "")

\* Lines of a message: empty, short, one that fills a part with a copy of
\* itself, one that does not, and lines at the limit and beyond it.
SendLines ==
    {"", "a",
     Repeat("x", max_len \div 2 - 1), Repeat("x", max_len \div 2),
     Repeat("y", max_len), Repeat("z", max_len + 1)}

SendMessages ==
    {Join(ls, "\n") : ls \in UNION {[1 .. n -> SendLines] : n \in 0 .. MaxLines}}

\* A change as lambda_handler has it when it passes has_changes=True.
SomeChanges ==
    <<section_change("NEW_SECTION", "CMSC436", "Programming Handheld Systems",
                     "0101", BaseSection)>>

SendInit ==
    /\ S3_BUCKET_NAME = ""
    /\ DISCORD_WEBHOOK_URL = "https://discord.example/hook"
    /\ DISCORD_USER_ID_TO_PING = "42"
    /\ run_as_script = FALSE
    /\ persisted = <<>>
    /\ pc = "input"
    /\ old_state = <<>>
    /\ new_state = <<>>
    /\ fetched_state = <<>>
    /\ fetch_errors = <<>>
    /\ changes \in {<<>>, SomeChanges}
    /\ message \in {Returned(m) : m \in SendMessages}
    /\ trace = <<>>
    /\ sent = <<>>
    /\ saved = <<>>
    /\ status = 0

\* Lines 307-352 on message.value with has_changes = (changes # <<>>).
SendPost ==
    /\ pc = "input"
    /\ LET ps == payloads(IF changes # <<>> THEN "update" ELSE "no_updates",
                          message.value, changes # <<>>,
                          DISCORD_WEBHOOK_URL, DISCORD_USER_ID_TO_PING)
       IN  \E n \in 0 .. Len(ps) : sent' = Delivered(ps, n)
    /\ pc' = "posted"
    /\ UNCHANGED <<config, persisted, old_state, fetched_state, new_state,
                   fetch_errors, changes, message, trace, saved, status>>

SendNext == SendPost

SpecSend == SendInit /\ [][SendNext]_vars

(***************************************************************************)
(* lambda_handler                                                          *)
(***************************************************************************)
\* The merge keeps the fetched record even when the fetch failed.
merged_record_fresh(old, course_id, data) == data

\* Lines 368-377: the record new_state gets for a fetched course.
merged_record(old, course_id, data) ==
    IF fetch_error_set(data) /\ Has(old, course_id)
    THEN Item(old, course_id)
    ELSE data

\* Lines 366-382: new_state.
merge_states(old, fetched) ==
    [i \in DOMAIN fetched |->
        <<fetched[i][1], merged_record(old, fetched[i][1], fetched[i][2])>>]
    \o SelectSeq(old, LAMBDA kv : ~Has(fetched, kv[1]))

\* Lines 366-383: fetch_errors.
fetch_error_list(old, fetched) ==
    LET failed == SelectSeq(fetched, LAMBDA kv : fetch_error_set(kv[2]))
        missing == SelectSeq(old, LAMBDA kv : ~Has(fetched, kv[1]))
    IN  [i \in DOMAIN failed |-> failed[i][1]]
        \o [i \in DOMAIN missing |-> missing[i][1] \o " (missing from fetch)"]

\* Line 390.
parsing_successful(new, fetched) ==
    \/ \E i \in DOMAIN new : GetOr(new[i][2], "sections", <<>>) # <<>>
    \/ fetched = <<>>

\* Line 393.
parsing_failed(new, fetched) ==
    ~parsing_successful(new, fetched) /\ fetched # <<>>

\* The parsing failure reported as fatal whatever the old state.
parsing_failure_status_fatal(old) == 500

\* Lines 394-401: the statusCode of a run that ends on a parsing failure.
parsing_failure_status(old) == IF old # <<>> THEN 200 ELSE 500

\* Every later run saves.
save_always(cs, errors) == TRUE

\* Lines 413-430: a later run calls save_current_state_s3 when the diff
\* found changes (line 420) or a fetch error was recorded (lines 427-428).
save_needed(cs, errors) == cs # <<>> \/ errors # <<>>

\* Lines 128-134: the stored snapshot, or {} without bucket or on an error.
load_previous_state_s3(bucket, stored, ok) ==
    IF bucket # "" /\ ok THEN stored ELSE <<>>

\* Lines 136-141: the success of a save; False without bucket or on an error.
save_success_of(bucket, ok) == bucket # "" /\ ok

\* Lines 444-447: the snapshot of the local file; {} when the file is
\* missing or is not JSON, which is the stored value <<>>. Only
\* FileNotFoundError and JSONDecodeError are caught: an open() or read that
\* fails otherwise (OSError: no descriptor left, no permission, a directory
\* in the file's place) raises out of the function.
load_previous_state_local(stored, ok) ==
    IF ok THEN Returned(stored) ELSE Raised("OSError")

\* Lines 441-453: a script run without bucket rebinds load_previous_state_s3
\* and save_current_state_s3 to the functions on the local file.
uses_local_file(as_script, bucket) == as_script /\ bucket = ""

\* Line 363, after the rebinding of lines 452 and 456: the call returns a
\* snapshot or raises. load_previous_state_s3 catches every exception.
load_previous_state(as_script, bucket, stored, ok) ==
    IF uses_local_file(as_script, bucket)
    THEN load_previous_state_local(stored, ok)
    ELSE Returned(load_previous_state_s3(bucket, stored, ok))

\* What a save can do: write the snapshot, fail leaving the store as it was,
\* or fail after open(STATE_FILE, 'w') emptied the local file (line 450).
SaveOutcomes == {"saved", "failed", "truncated"}

\* The value a save returns (lines 138-141, 448-451).
save_current_state(as_script, bucket, outcome) ==
    IF uses_local_file(as_script, bucket)
    THEN outcome = "saved"
    ELSE save_success_of(bucket, outcome = "saved")

\* The stored snapshot after a save of `data`: put_object replaces it or
\* leaves it; a write to the local file that fails after the file was opened
\* leaves a file that loads as {}.
stored_after_save(as_script, bucket, stored, data, outcome) ==
    IF save_current_state(as_script, bucket, outcome) THEN data
    ELSE IF uses_local_file(as_script, bucket) /\ outcome = "truncated" THEN <<>>
    ELSE stored

\* What process_course_prefixes (lines 79-125) can return for the two
\* courses: a course is not listed, its section fetch failed, or its
\* sections were parsed. Courses come in page order.
FetchedSections ==
    {first \o second :
        first \in {<<>>}
                  \cup {<< <<"0101", r>> >> :
                           r \in {BaseSection,
                                  [BaseSection EXCEPT !.open = MaxSeats],
                                  [BaseSection EXCEPT !.instructor = "Unknown"],
                                  [BaseSection EXCEPT !.open = PARSE_ERROR_DEFAULT,
                                                      !.instructor = "Unknown"],
                                  [open |-> PARSE_ERROR_DEFAULT,
                                   total |-> PARSE_ERROR_DEFAULT,
                                   waitlist |-> PARSE_ERROR_DEFAULT,
                                   instructor |-> "Instructor: TBA"]}},
        second \in {<<>>, << <<"0201", BaseSection>> >>}}

FetchedCmsc436 ==
    {<<>>, << <<"CMSC436", [title |-> "Programming Handheld Systems",
                            fetch_error |-> TRUE]>> >>}
    \cup {<< <<"CMSC436", [title |-> t, sections |-> m]>> >> :
             t \in {"Programming Handheld Systems", "Mobile Programming"},
             m \in FetchedSections}

FetchedCmsc335 ==
    {<<>>,
     << <<"CMSC335", [title |-> "Web Application Development with JavaScript",
                      fetch_error |-> TRUE]>> >>,
     << <<"CMSC335", [title |-> "Web Application Development with JavaScript",
                      sections |-> <<>>]>> >>,
     << <<"CMSC335", [title |-> "Web Application Development with JavaScript",
                      sections |-> << <<"0101", BaseSection>> >>]>> >>}

FetchedStates == {a \o b : a \in FetchedCmsc335, b \in FetchedCmsc436}

\* The module is loaded by the Lambda runtime, with or without bucket, or
\* run as a script without bucket, its state in the local file. (A script
\* run with a bucket keeps the S3 functions, lines 454-457, and behaves as
\* the entry point with that bucket.)
Init ==
    /\ S3_BUCKET_NAME \in {"", "bucket"}
    /\ DISCORD_WEBHOOK_URL \in {"", "https://discord.example/hook"}
    /\ DISCORD_USER_ID_TO_PING \in {"", "42"}
    /\ run_as_script \in (IF S3_BUCKET_NAME = "" THEN BOOLEAN ELSE {FALSE})
    /\ persisted = <<>>
    /\ pc = "idle"
    /\ old_state = <<>>
    /\ fetched_state = <<>>
    /\ new_state = <<>>
    /\ fetch_errors = <<>>
    /\ changes = <<>>
    /\ message = NoMessage
    /\ trace = <<>>
    /\ sent = <<>>
    /\ saved = <<>>
    /\ status = 0

\* Lines 363-390: a run starts, loads the old state, fetches and merges.
\* The fetch of line 364 can raise instead of returning: line 120 reads
\* `raw`, which line 119 binds only for a section with an instructor span, so
\* a page whose first parsed section has no such span gives
\* UnboundLocalError, which nothing catches; the run ends there. (A later
\* section without the span gets the `raw` of the section before it.) The
\* load of line 363 can raise too, in a script run on the local file: the
\* run ends before old_state is bound and before anything is fetched.
Invoke ==
    /\ pc = "idle"
    /\ \E load_ok \in BOOLEAN :
         LET loaded == load_previous_state(run_as_script, S3_BUCKET_NAME,
                                           persisted, load_ok)
         IN  IF loaded.raised
             THEN /\ old_state' = <<>>
                  /\ fetched_state' = <<>>
                  /\ new_state' = <<>>
                  /\ fetch_errors' = <<>>
                  /\ message' = loaded
                  /\ pc' = "raised"
             ELSE /\ old_state' = loaded.value
                  /\ \/ \E fetched \in FetchedStates :
                           /\ fetched_state' = fetched
                           /\ new_state' = merge_states(loaded.value, fetched)
                           /\ fetch_errors' = fetch_error_list(loaded.value,
                                                               fetched)
                           /\ message' = NoMessage
                           /\ pc' = "merged"
                     \/ /\ fetched_state' = <<>>
                        /\ new_state' = <<>>
                        /\ fetch_errors' = <<>>
                        /\ message' = Raised("UnboundLocalError")
                        /\ pc' = "raised"
    /\ changes' = <<>>
    /\ trace' = <<>>
    /\ sent' = <<>>
    /\ saved' = <<>>
    /\ status' = 0
    /\ UNCHANGED <<config, persisted>>

\* Lines 393-401: no section in any course although courses were listed.
ParsingFailed ==
    /\ pc = "merged"
    /\ parsing_failed(new_state, fetched_state)
    /\ LET text == IF old_state # <<>>
                   THEN "Error Alert [warn]: Failed parsing sections. Check logs."
                   ELSE "Error Alert [warn]: Failed parsing sections on initial run."
           ps == payloads("error", text, FALSE, DISCORD_WEBHOOK_URL,
                          DISCORD_USER_ID_TO_PING)
       IN  \E n \in 0 .. Len(ps) : sent' = Delivered(ps, n)
    /\ status' = parsing_failure_status(old_state)
    /\ pc' = "returned"
    /\ UNCHANGED <<config, persisted, old_state, fetched_state, new_state,
                   fetch_errors, changes, message, trace, saved>>

\* Lines 403-410: the first run renders and sends the initial state, then
\* saves it.
FirstRun ==
    /\ pc = "merged"
    /\ ~parsing_failed(new_state, fetched_state)
    /\ old_state = <<>>
    /\ LET initial_summary == format_state_message(new_state, <<>>)
           ps1 == payloads("initial", initial_summary.value, FALSE,
                           DISCORD_WEBHOOK_URL, DISCORD_USER_ID_TO_PING)
           ps2 == IF fetch_errors # <<>>
                  THEN payloads("error",
                           "[warn] Initial fetch failed/stale for: "
                           \o Join(fetch_errors, ", ") \o ".",
                           FALSE, DISCORD_WEBHOOK_URL, DISCORD_USER_ID_TO_PING)
                  ELSE <<>>
       IN  /\ message' = initial_summary
           /\ \E n1 \in 0 .. Len(ps1), n2 \in 0 .. Len(ps2) :
                sent' = Delivered(ps1, n1) \o Delivered(ps2, n2)
    /\ \E outcome \in SaveOutcomes :
         LET save_success == save_current_state(run_as_script, S3_BUCKET_NAME,
                                                outcome)
         IN  /\ persisted' = stored_after_save(run_as_script, S3_BUCKET_NAME,
                                               persisted, new_state, outcome)
             /\ status' = IF save_success THEN 200 ELSE 500
    /\ saved' = <<new_state>>
    /\ trace' = <<"render", "notify", "persist">>
    /\ pc' = "returned"
    /\ UNCHANGED <<config, old_state, fetched_state, new_state, fetch_errors,
                   changes>>

\* Lines 411-434: a later run diffs; with changes it renders, notifies and
\* saves, without changes it notifies and saves only a merged state. An
\* exception raised by format_state_message (line 417) ends the run there.
SubsequentRun ==
    /\ pc = "merged"
    /\ ~parsing_failed(new_state, fetched_state)
    /\ old_state # <<>>
    /\ LET cs == compare_states(old_state, new_state)
           update_message == format_state_message(new_state, build_change_lookup(cs))
           stale == Join(fetch_errors, ", ")
       IN
       /\ changes' = cs
       /\ IF cs # <<>> /\ update_message.raised
          THEN /\ message' = update_message
               /\ trace' = <<"diff">>
               /\ pc' = "raised"
               /\ UNCHANGED <<persisted, sent, saved, status>>
          ELSE
          LET ps1 == IF cs # <<>>
                     THEN payloads("update", update_message.value, TRUE,
                                   DISCORD_WEBHOOK_URL, DISCORD_USER_ID_TO_PING)
                     ELSE IF SEND_NO_UPDATES_MESSAGE
                     THEN payloads("no_updates",
                                   "[ok] No course section updates found at HH:MM:SS UTC.",
                                   FALSE, DISCORD_WEBHOOK_URL, DISCORD_USER_ID_TO_PING)
                     ELSE <<>>
              ps2 == IF fetch_errors = <<>> THEN <<>>
                     ELSE IF cs # <<>>
                     THEN payloads("error",
                              "[warn] Some course data may be stale due to fetch errors: "
                              \o stale \o ".",
                              FALSE, DISCORD_WEBHOOK_URL, DISCORD_USER_ID_TO_PING)
                     ELSE payloads("error",
                              "[warn] No changes, but fetch failed/stale for: "
                              \o stale \o ".",
                              FALSE, DISCORD_WEBHOOK_URL, DISCORD_USER_ID_TO_PING)
              saving == save_needed(cs, fetch_errors)
          IN  /\ message' = IF cs # <<>> THEN update_message ELSE message
              /\ \E n1 \in 0 .. Len(ps1), n2 \in 0 .. Len(ps2) :
                   sent' = IF SEND_DISCORD_NOTIFICATION
                           THEN Delivered(ps1, n1) \o Delivered(ps2, n2)
                           ELSE <<>>
              /\ \E outcome \in SaveOutcomes :
                   LET save_success == save_current_state(run_as_script,
                                           S3_BUCKET_NAME, outcome)
                   IN  /\ persisted' = IF saving
                                       THEN stored_after_save(run_as_script,
                                                S3_BUCKET_NAME, persisted,
                                                new_state, outcome)
                                       ELSE persisted
                       /\ status' = IF saving /\ ~save_success THEN 500 ELSE 200
              /\ saved' = IF saving THEN <<new_state>> ELSE <<>>
              /\ trace' = IF cs # <<>>
                          THEN <<"diff", "render", "notify", "persist">>
                          ELSE IF saving THEN <<"diff", "notify", "persist">>
                          ELSE <<"diff", "notify">>
              /\ pc' = "returned"
    /\ UNCHANGED <<config, old_state, fetched_state, new_state, fetch_errors>>

\* The invocation ends, by the return of line 397, 401 or 434 or by the
\* exception; its locals are gone, the stored snapshot stays.
Finish ==
    /\ pc \in {"returned", "raised"}
    /\ pc' = "idle"
    /\ old_state' = <<>>
    /\ fetched_state' = <<>>
    /\ new_state' = <<>>
    /\ fetch_errors' = <<>>
    /\ changes' = <<>>
    /\ message' = NoMessage
    /\ trace' = <<>>
    /\ sent' = <<>>
    /\ saved' = <<>>
    /\ status' = 0
    /\ UNCHANGED <<config, persisted>>

Next == Invoke \/ ParsingFailed \/ FirstRun \/ SubsequentRun \/ Finish

Spec == Init /\ [][Next]_vars

(***************************************************************************)
(* Claims about compare_states and format_state_message (under SpecDiff)   *)
(***************************************************************************)
\* The positions in cs of the changes reported for one section of one course.
ChangesOf(cs, course_id, section_id) ==
    {k \in DOMAIN cs : cs[k].course = course_id /\ cs[k].section = section_id}

\* The positions in cs of the changes of one field of one section.
FieldChangesOf(cs, course_id, section_id, field) ==
    {k \in ChangesOf(cs, course_id, section_id) :
        "field" \in DOMAIN cs[k] /\ cs[k].field = field}

\* The positions in cs of the removals reported for one section.
RemovalsOf(cs, course_id, section_id) ==
    {k \in ChangesOf(cs, course_id, section_id) : cs[k].type = "SECTION_REMOVED"}

SectionsOf(course_data) == GetOr(course_data, "sections", <<>>)

NumericFields == {"open", "total", "waitlist"}

\* C1: a course of new that is not fetch-errored and is absent from old gets
\* exactly one change per section, of type NEW_CMSC4_COURSE when its id
\* starts with "CMSC4" and NEW_COURSE_SECTION otherwise.
C1_OneChangePerNewCourseSection ==
    pc = "compared" =>
        \A i \in DOMAIN new_state :
            LET course_id == new_state[i][1]
                course_data == new_state[i][2]
            IN  (~fetch_error_set(course_data) /\ ~Has(old_state, course_id)) =>
                    \A j \in DOMAIN SectionsOf(course_data) :
                        LET ks == ChangesOf(changes, course_id,
                                            SectionsOf(course_data)[j][1])
                        IN  /\ Cardinality(ks) = 1
                            /\ \A k \in ks :
                                 changes[k].type =
                                    IF StartsWith(course_id, "CMSC4")
                                    THEN "NEW_CMSC4_COURSE"
                                    ELSE "NEW_COURSE_SECTION"

\* C2: compare_states(S, S) is empty for every snapshot S.
C2_SelfDiffEmpty ==
    (pc = "compared" /\ old_state = new_state) => changes = <<>>

\* C2 witness: a snapshot compared with itself that holds a fetch-errored
\* course or a section without instructor, and a section with the sentinel.
C2_Witness ==
    /\ pc = "compared"
    /\ old_state = new_state
    /\ Len(new_state) = 2
    /\ \E i \in DOMAIN new_state :
         \E j \in DOMAIN SectionsOf(new_state[i][2]) :
            LET data == SectionsOf(new_state[i][2])[j][2]
            IN  "instructor" \notin DOMAIN data /\ "total" \in DOMAIN data

\* C3: format_state_message returns a string for every snapshot and every
\* lookup built from a compare_states result; it never raises.
C3_RendererTotal ==
    pc = "rendered" => ~message.raised

\* C5 as stated: for a section in both old and new of a non-errored course,
\* a field whose old or new value is the sentinel (-999, "Unknown") gets no
\* change.
C5_UnknownEitherSide ==
    pc = "compared" =>
        \A i \in DOMAIN new_state :
            LET course_id == new_state[i][1]
                new_sections == SectionsOf(new_state[i][2])
                old_sections == SectionsOf(ItemOr(old_state, course_id, <<>>))
            IN  (Has(old_state, course_id) /\ ~fetch_error_set(new_state[i][2])) =>
                \A j \in DOMAIN new_sections :
                    LET section_id == new_sections[j][1]
                        n == new_sections[j][2]
                        o == ItemOr(old_sections, section_id, <<>>)
                    IN  Has(old_sections, section_id) =>
                        /\ \A f \in NumericFields :
                             (\/ GetOr(o, f, 0) = PARSE_ERROR_DEFAULT
                              \/ GetOr(n, f, 0) = PARSE_ERROR_DEFAULT)
                             => FieldChangesOf(changes, course_id, section_id, f) = {}
                        /\ (\/ GetOr(o, "instructor", "") = "Unknown"
                            \/ GetOr(n, "instructor", "") = "Unknown")
                           => FieldChangesOf(changes, course_id, section_id,
                                             "instructor") = {}

\* C5 amended: a numeric field (open, total, waitlist) whose old or new value
\* is -999 or missing gets no change; the instructor field gets no change
\* when its old value is "Unknown" or missing.
C5_UnknownSuppressed ==
    pc = "compared" =>
        \A i \in DOMAIN new_state :
            LET course_id == new_state[i][1]
                new_sections == SectionsOf(new_state[i][2])
                old_sections == SectionsOf(ItemOr(old_state, course_id, <<>>))
            IN  (Has(old_state, course_id) /\ ~fetch_error_set(new_state[i][2])) =>
                \A j \in DOMAIN new_sections :
                    LET section_id == new_sections[j][1]
                        n == new_sections[j][2]
                        o == ItemOr(old_sections, section_id, <<>>)
                    IN  Has(old_sections, section_id) =>
                        /\ \A f \in NumericFields :
                             (\/ GetOr(o, f, PARSE_ERROR_DEFAULT) = PARSE_ERROR_DEFAULT
                              \/ GetOr(n, f, PARSE_ERROR_DEFAULT) = PARSE_ERROR_DEFAULT)
                             => FieldChangesOf(changes, course_id, section_id, f) = {}
                        /\ GetOr(o, "instructor", "Unknown") = "Unknown"
                           => FieldChangesOf(changes, course_id, section_id,
                                             "instructor") = {}

\* C5 witness: a section in both snapshots whose old open count and old
\* instructor are unknown while the new ones are known, next to a total that
\* did change.
C5_Witness ==
    /\ pc = "compared"
    /\ Has(old_state, "CMSC436") /\ Has(new_state, "CMSC436")
    /\ ~fetch_error_set(Item(new_state, "CMSC436"))
    /\ LET old_sections == SectionsOf(Item(old_state, "CMSC436"))
           new_sections == SectionsOf(Item(new_state, "CMSC436"))
       IN  /\ Has(old_sections, "0101") /\ Has(new_sections, "0101")
           /\ Item(old_sections, "0101") =
                [open |-> PARSE_ERROR_DEFAULT, total |-> MaxSeats,
                 waitlist |-> 0, instructor |-> "Unknown"]
           /\ Item(new_sections, "0101") =
                [open |-> 0, total |-> MaxSeats + 1,
                 waitlist |-> PARSE_ERROR_DEFAULT, instructor |-> "Smith"]
    /\ \E k \in DOMAIN changes : changes[k].type = "TOTAL_CHANGE"

\* C6: for a course in both snapshots that is not fetch-errored in new, each
\* section of old that new lacks gets exactly one SECTION_REMOVED change,
\* carrying the old section record, and no section still in new gets one.
C6_RemovedSections ==
    pc = "compared" =>
        \A i \in DOMAIN old_state :
            LET course_id == old_state[i][1]
                old_sections == SectionsOf(old_state[i][2])
                new_sections == SectionsOf(ItemOr(new_state, course_id, <<>>))
            IN  (/\ Has(new_state, course_id)
                 /\ ~fetch_error_set(Item(new_state, course_id))) =>
                /\ \A j \in DOMAIN old_sections :
                     LET ks == RemovalsOf(changes, course_id, old_sections[j][1])
                     IN  IF Has(new_sections, old_sections[j][1])
                         THEN ks = {}
                         ELSE /\ Cardinality(ks) = 1
                              /\ \A k \in ks : changes[k].data = old_sections[j][2]
                /\ \A j \in DOMAIN new_sections :
                     RemovalsOf(changes, course_id, new_sections[j][1]) = {}

\* C6 witness: section 0101 of CMSC436 removed while section 0201 stays.
C6_Witness ==
    /\ pc = "compared"
    /\ Has(old_state, "CMSC436") /\ Has(new_state, "CMSC436")
    /\ Keys(SectionsOf(Item(old_state, "CMSC436"))) = {"0101", "0201"}
    /\ Keys(SectionsOf(Item(new_state, "CMSC436"))) = {"0201"}
    /\ \E k \in DOMAIN changes :
         /\ changes[k].type = "SECTION_REMOVED"
         /\ changes[k].section = "0101"
         /\ "instructor" \notin DOMAIN changes[k].data

\* C7: a course whose record in new has fetch_error set contributes no change
\* of any kind, and none of its old sections is reported removed.
C7_ErroredCourseSilent ==
    pc = "compared" =>
        \A i \in DOMAIN new_state :
            GetOr(new_state[i][2], "fetch_error", FALSE) = TRUE =>
                \A k \in DOMAIN changes : changes[k].course # new_state[i][1]

\* C7 witness: CMSC436 errored in new with sections that differ from old's,
\* while the other course does report changes.
C7_Witness ==
    /\ pc = "compared"
    /\ Has(new_state, "CMSC436") /\ Has(old_state, "CMSC436")
    /\ GetOr(Item(new_state, "CMSC436"), "fetch_error", FALSE) = TRUE
    /\ SectionsOf(Item(new_state, "CMSC436")) # <<>>
    /\ Keys(SectionsOf(Item(old_state, "CMSC436"))) = {"0101"}
    /\ ~fetch_error_set(Item(old_state, "CMSC436"))
    /\ changes # <<>>

\* The additions and field changes of cs, in their order: everything the
\* first loop appends.
AddedOrChanged(cs) == SelectSeq(cs, LAMBDA c : c.type # "SECTION_REMOVED")

\* The position of a course id in the ascending order of the ids.
CourseRank(course_id) == CHOOSE r \in DOMAIN CourseIds : CourseIds[r] = course_id

\* C11: whatever the insertion order of the courses of new, the additions and
\* field changes returned by compare_states come in ascending order of course
\* id, and they are the ones the diff of the same snapshot with its courses
\* inserted in ascending order returns.
C11_ChangesInCourseOrder ==
    pc = "compared" =>
        LET events == AddedOrChanged(changes)
        IN  /\ \A j, k \in DOMAIN events :
                 j < k => CourseRank(events[j].course) <= CourseRank(events[k].course)
            /\ events = AddedOrChanged(
                            compare_states(old_state,
                                           sorted_items(new_state, CourseIds)))

\* The section is in old and in new, with open count 0 in old and a positive
\* open count in new, in a course of new that compare_states does not skip.
SeatsOpenedCase(course_id, section_id) ==
    /\ Has(old_state, course_id)
    /\ Has(new_state, course_id)
    /\ ~fetch_error_set(Item(new_state, course_id))
    /\ Has(SectionsOf(Item(old_state, course_id)), section_id)
    /\ Has(SectionsOf(Item(new_state, course_id)), section_id)
    /\ GetOr(Item(SectionsOf(Item(old_state, course_id)), section_id),
             "open", PARSE_ERROR_DEFAULT) = 0
    /\ GetOr(Item(SectionsOf(Item(new_state, course_id)), section_id),
             "open", PARSE_ERROR_DEFAULT) > 0

\* C12: for every course and section the result of compare_states holds at
\* most one change of the open field, SEATS_OPENED or OPEN_CHANGE; when the
\* old open count is 0 and the new one is positive that change is
\* SEATS_OPENED with old_val 0 and new_val the new open count.
C12_OneOpenChange ==
    pc = "compared" =>
        \A c \in DOMAIN CourseIds, s \in DOMAIN SectionIds :
            LET course_id == CourseIds[c]
                section_id == SectionIds[s]
                on_open == {k \in ChangesOf(changes, course_id, section_id) :
                               \/ changes[k].type \in {"SEATS_OPENED", "OPEN_CHANGE"}
                               \/ GetOr(changes[k], "field", "") = "open"}
            IN  /\ Cardinality(on_open) <= 1
                /\ SeatsOpenedCase(course_id, section_id) =>
                     \E k \in on_open :
                        /\ changes[k].type = "SEATS_OPENED"
                        /\ changes[k].old_val = 0
                        /\ changes[k].new_val
                           = Item(SectionsOf(Item(new_state, course_id)),
                                  section_id).open

\* C12 witness: section 0101 of CMSC436 went from 0 open seats to a positive
\* count and the diff holds its SEATS_OPENED change.
C12_Witness ==
    /\ pc = "compared"
    /\ SeatsOpenedCase("CMSC436", "0101")
    /\ \E k \in DOMAIN changes :
          /\ changes[k].type = "SEATS_OPENED"
          /\ changes[k].course = "CMSC436"
          /\ changes[k].section = "0101"

(***************************************************************************)
(* Claims about lambda_handler and its notifications (under Spec)          *)
(***************************************************************************)
\* sub in s
Contains(s, sub) ==
    \E j \in 1 .. (Len(s) - Len(sub) + 1) : SubSeq(s, j, j + Len(sub) - 1) = sub

RunEnded == pc \in {"returned", "raised"}

\* The run built the merged snapshot (lines 366-383): the load and the
\* fetch returned.
MergeDone ==
    \/ pc = "merged"
    \/ RunEnded /\ message \notin {Raised("OSError"), Raised("UnboundLocalError")}

\* C4: a run with a non-empty old snapshot in which compare_states returns a
\* change goes through diff, render, notify and persist in that order and
\* calls save_current_state_s3 with the merged snapshot, which a successful
\* save stores for the next run.
C4_ChangesReachSave ==
    (RunEnded /\ old_state # <<>> /\ changes # <<>>) =>
        /\ trace = <<"diff", "render", "notify", "persist">>
        /\ saved = <<new_state>>
        /\ status = 200 => persisted = new_state

\* C8: the merged snapshot holds every course id of the old snapshot; an old
\* course whose fetch failed or that the fetch result lacks keeps the old
\* record; a course fetched without error carries the fetched record.
C8_MergeKeepsOld ==
    MergeDone =>
        /\ \A i \in DOMAIN old_state :
             LET course_id == old_state[i][1]
             IN  /\ Has(new_state, course_id)
                 /\ (\/ ~Has(fetched_state, course_id)
                     \/ GetOr(Item(fetched_state, course_id), "fetch_error", FALSE)
                        = TRUE)
                    => Item(new_state, course_id) = old_state[i][2]
        /\ \A j \in DOMAIN fetched_state :
             GetOr(fetched_state[j][2], "fetch_error", FALSE) # TRUE
             => Item(new_state, fetched_state[j][1]) = fetched_state[j][2]

\* C8 witness: CMSC436 failed to fetch and CMSC335 is missing from the fetch,
\* both known to the old snapshot with sections.
C8_Witness ==
    /\ pc = "merged"
    /\ Keys(old_state) = {"CMSC335", "CMSC436"}
    /\ Keys(fetched_state) = {"CMSC436"}
    /\ GetOr(Item(fetched_state, "CMSC436"), "fetch_error", FALSE) = TRUE
    /\ SectionsOf(Item(old_state, "CMSC436")) # <<>>
    /\ SectionsOf(Item(old_state, "CMSC335")) # <<>>

\* The merged snapshot has no course with a section although the run listed
\* courses.
NoSectionAnywhere ==
    /\ fetched_state # <<>>
    /\ \A i \in DOMAIN new_state : SectionsOf(new_state[i][2]) = <<>>

\* C9: on a parsing failure the run ends with status 500 when the old
\* snapshot is empty and 200 when it is not; compare_states is not run, no
\* save is performed and the stored snapshot is left unchanged.
C9_ParsingFailure ==
    [][(pc = "merged" /\ NoSectionAnywhere) =>
          /\ pc' = "returned"
          /\ status' = (IF old_state = <<>> THEN 500 ELSE 200)
          /\ changes' = <<>>
          /\ trace' = <<>>
          /\ saved' = <<>>
          /\ persisted' = persisted]_vars

\* C9 witness: a run over a stored snapshot with sections ended with status
\* 200 on a parsing failure, its warning delivered.
C9_Witness ==
    /\ pc = "returned"
    /\ NoSectionAnywhere
    /\ old_state # <<>>
    /\ persisted = old_state
    /\ status = 200
    /\ Len(sent) = 1

\* C10: the user mention appears only in the first part of an update
\* notification, and only when a user id is configured; it appears in no part
\* of an initial-state, no-changes or error notification and in no later part
\* of an update notification.
C10_MentionOnlyFirstUpdatePart ==
    \A i \in DOMAIN sent :
        Contains(sent[i].content, "<@") =>
            /\ sent[i].kind = "update"
            /\ sent[i].part = 1
            /\ DISCORD_USER_ID_TO_PING # ""

\* C10 witness: with a user id configured, an initial-state notification and
\* an error notification were delivered.
C10_Witness ==
    /\ DISCORD_USER_ID_TO_PING # ""
    /\ Len(sent) = 2
    /\ sent[1].kind = "initial"
    /\ sent[2].kind = "error"

(***************************************************************************)
(* Claims about the split of send_discord_notification (under SpecSend)    *)
(***************************************************************************)
\* The lines the loop of lines 323-334 runs over: those of the message, the
\* first one behind the mention when there is one.
SendInputLines ==
    LET lines == splitlines(message.value)
    IN  IF lines = <<>> THEN <<>>
        ELSE [lines EXCEPT ![1] = user_ping_of(changes # <<>>,
                                               DISCORD_USER_ID_TO_PING) \o @]

\* messages_to_send for the message and the flag of the state.
SendParts ==
    messages_to_send(message.value, changes # <<>>, DISCORD_WEBHOOK_URL,
                     DISCORD_USER_ID_TO_PING)

\* The text of a run of lines, each ended by a newline.
WithNewlines(lines) == Join([i \in DOMAIN lines |-> lines[i] \o "\n"], "")

\* The part is a non-empty run of whole lines, each ended by its newline.
IsRunOfLines(part, run) == run # <<>> /\ part = WithNewlines(run)

\* The lines of the parts, in the order of the parts.
LinesOfParts(parts) == Flatten([i \in DOMAIN parts |-> splitlines(parts[i])])

\* C13 as stated: the parts are runs of whole consecutive lines holding every
\* line once and in order, and a part has at most max_len characters unless
\* it is a single line longer than max_len.
C13_SplitOnLinesLongerLine ==
    pc = "posted" =>
        LET parts == SendParts
        IN  /\ LinesOfParts(parts) = SendInputLines
            /\ \A i \in DOMAIN parts :
                  LET run == splitlines(parts[i])
                  IN  /\ IsRunOfLines(parts[i], run)
                      /\ \/ Len(parts[i]) <= max_len
                         \/ Len(run) = 1 /\ Len(run[1]) > max_len

\* C13: the parts are runs of whole consecutive lines holding every line of
\* the message once and in order, no line is broken across parts, and a
\* part, newlines included, has at most max_len characters unless it is a
\* single line of max_len characters or more; what is posted is a part.
C13_SplitOnLines ==
    pc = "posted" =>
        LET parts == SendParts
        IN  /\ LinesOfParts(parts) = SendInputLines
            /\ \A i \in DOMAIN parts :
                  LET run == splitlines(parts[i])
                  IN  /\ IsRunOfLines(parts[i], run)
                      /\ \/ Len(parts[i]) <= max_len
                         \/ Len(run) = 1 /\ Len(run[1]) >= max_len
            /\ \A i \in DOMAIN sent :
                  /\ sent[i].part \in DOMAIN parts
                  /\ sent[i].content = parts[sent[i].part]

\* C13 witness: a message of three lines was split into two parts, the first
\* of exactly max_len characters, and both were posted.
C13_Witness ==
    /\ pc = "posted"
    /\ Len(sent) = 2
    /\ Len(SendInputLines) = 3
    /\ Len(SendParts) = 2
    /\ Len(SendParts[1]) = max_len
    /\ Len(splitlines(SendParts[1])) = 2

(***************************************************************************)
(* Claims about the snapshot handed to compare_states and about the save   *)
(* (under Spec)                                                            *)
(***************************************************************************)
\* The run called compare_states(old_state, new_state) (line 412).
ReachedDiff == RunEnded /\ trace # <<>> /\ trace[1] = "diff"

\* C14 as stated: in a run that reaches compare_states every course flagged
\* fetch-errored in the merged snapshot is in the old snapshot with the same
\* record.
C14_ErroredCourseIsOld ==
    ReachedDiff =>
        \A i \in DOMAIN new_state :
            fetch_error_set(new_state[i][2]) =>
                /\ Has(old_state, new_state[i][1])
                /\ Item(old_state, new_state[i][1]) = new_state[i][2]

\* C14: in a run that reaches compare_states a course flagged fetch-errored
\* in the merged snapshot carries its old record when the old snapshot has
\* the course, and otherwise the error marker the fetch returned for it.
C14_ErroredCourseOldOrMarker ==
    ReachedDiff =>
        \A i \in DOMAIN new_state :
            LET course_id == new_state[i][1]
            IN  fetch_error_set(new_state[i][2]) =>
                    IF Has(old_state, course_id)
                    THEN Item(old_state, course_id) = new_state[i][2]
                    ELSE /\ Has(fetched_state, course_id)
                         /\ Item(fetched_state, course_id) = new_state[i][2]

\* C14 witness: the diff ran on a merged snapshot in which CMSC436 is flagged
\* and carries the flagged record of the old snapshot, its fetch having
\* failed again.
C14_Witness ==
    /\ ReachedDiff
    /\ Has(old_state, "CMSC436")
    /\ Has(fetched_state, "CMSC436")
    /\ fetch_error_set(Item(fetched_state, "CMSC436"))
    /\ fetch_error_set(Item(new_state, "CMSC436"))
    /\ Item(new_state, "CMSC436") = Item(old_state, "CMSC436")

\* C15: a run over a non-empty old snapshot in which compare_states returns
\* no change and no fetch error or missing course was recorded performs no
\* save and ends with the stored snapshot as it was loaded, whatever the
\* merged snapshot holds, so that the next run loads the same old snapshot.
C15_QuietRunKeepsStored ==
    (ReachedDiff /\ changes = <<>> /\ fetch_errors = <<>>) =>
        /\ trace = <<"diff", "notify">>
        /\ saved = <<>>
        /\ persisted = old_state

\* C15 witness: the run ended without change or fetch error although the
\* merged snapshot differs from the stored one in the title of CMSC436 and in
\* section 0101, whose open count was unknown and whose instructor was
\* "Unknown" in the stored snapshot.
C15_Witness ==
    /\ ReachedDiff
    /\ changes = <<>>
    /\ fetch_errors = <<>>
    /\ saved = <<>>
    /\ persisted = old_state
    /\ Has(old_state, "CMSC436")
    /\ Item(new_state, "CMSC436").title # Item(old_state, "CMSC436").title
    /\ Item(SectionsOf(Item(old_state, "CMSC436")), "0101")
       = [BaseSection EXCEPT !.open = PARSE_ERROR_DEFAULT, !.instructor = "Unknown"]
    /\ Item(SectionsOf(Item(new_state, "CMSC436")), "0101") = BaseSection

====
